---- MODULE Spec2Model ----
(***************************************************************************)
(* Spectral kernels of gpytorch/kernels/spectral_autoregressive_flow_      *)
(* kernel.py: the five kernel classes, their forward evaluations, and the  *)
(* two data-driven initializers of RFNSSpectralDeltaKernel.                *)
(*                                                                         *)
(* Tensor elements are exact rationals <<num, den>> (den > 0, lowest       *)
(* terms); <<0,0>> is NaN, <<1,0>> is +inf, <<-1,0>> is -inf.  A 2-D       *)
(* tensor is a sequence of rows.  Angles are measured in turns, so         *)
(* cos(2*pi*t) is Cos(t); inputs are drawn so that every angle is a        *)
(* multiple of a quarter turn, where cos and sin are exact integers.       *)
(***************************************************************************)
EXTENDS Integers, Sequences, FiniteSets, Bags, TLC

VARIABLES
    kernel,     \* the kernel object: its class and fields
    res,        \* the call in progress: its inputs, intermediate values, result
    written     \* history: the value last assigned through the Z setter

vars == <<kernel, res, written>>

(***************************************************************************)
(* Bounds of the model.                                                    *)
(***************************************************************************)
MaxPoints == 2      \* n and m range over 1..MaxPoints
MaxDims == 1        \* num_dims ranges over 1..MaxDims
MaxDeltas == 1      \* num_deltas ranges over 1..MaxDeltas
MaxBase == 2        \* distinct rows in one drawn sample block
MaxBatch == 2       \* size of a leading batch dimension ranges over 1..MaxBatch
MaxN == 4           \* train_x.size(-2) in initialize_from_data ranges over 1..MaxN
MaxTrain == 3       \* points of train_x in initialize_from_data_simple

(***************************************************************************)
(* Rational arithmetic.                                                    *)
(***************************************************************************)
Abs(a) == IF a < 0 THEN -a ELSE a

RECURSIVE Gcd(_, _)
Gcd(a, b) == IF b = 0 THEN a ELSE Gcd(b, a % b)

NaN == <<0, 0>>
PosInf == <<1, 0>>
NegInf == <<-1, 0>>

Rat(n, d) ==
    IF d = 0 THEN NaN
    ELSE LET g == Gcd(Abs(n), Abs(d))
             s == IF d < 0 THEN -1 ELSE 1
         IN  <<(s * n) \div g, (s * d) \div g>>

Num(n) == <<n, 1>>
IsFinite(a) == a[2] # 0
RAdd(a, b) == IF IsFinite(a) /\ IsFinite(b) THEN Rat(a[1] * b[2] + b[1] * a[2], a[2] * b[2]) ELSE NaN
RNeg(a) == IF IsFinite(a) THEN <<-a[1], a[2]>> ELSE NaN
RSub(a, b) == RAdd(a, RNeg(b))
RMul(a, b) == IF IsFinite(a) /\ IsFinite(b) THEN Rat(a[1] * b[1], a[2] * b[2]) ELSE NaN
RDiv(a, b) == IF IsFinite(a) /\ IsFinite(b) THEN Rat(a[1] * b[2], a[2] * b[1]) ELSE NaN
RLess(a, b) == IsFinite(a) /\ IsFinite(b) /\ a[1] * b[2] < b[1] * a[2]
RLeq(a, b) == IsFinite(a) /\ IsFinite(b) /\ a[1] * b[2] <= b[1] * a[2]

Max(a, b) == IF a >= b THEN a ELSE b

RECURSIVE SumRange(_, _, _)
SumRange(f, lo, hi) ==
    IF lo > hi THEN Num(0)
    ELSE IF lo = hi THEN f[lo]
    ELSE LET mid == (lo + hi) \div 2
         IN  RAdd(SumRange(f, lo, mid), SumRange(f, mid + 1, hi))

\* sum / mean of a sequence of rationals
Sum(s) == SumRange(s, 1, Len(s))
Mean(s) == RDiv(Sum(s), Num(Len(s)))

\* sum of a sequence of integers
RECURSIVE IntSumRange(_, _, _)
IntSumRange(f, lo, hi) ==
    IF lo > hi THEN 0
    ELSE IF lo = hi THEN f[lo]
    ELSE LET mid == (lo + hi) \div 2
         IN  IntSumRange(f, lo, mid) + IntSumRange(f, mid + 1, hi)
IntSum(s) == IntSumRange(s, 1, Len(s))

\* inner product of two rows: (a * b).sum(-1)
RECURSIVE DotFrom(_, _, _, _, _)
DotFrom(a, b, k, n, d) ==
    IF k > Len(a) THEN Rat(n, d)
    ELSE DotFrom(a, b, k + 1,
                 n * (a[k][2] * b[k][2]) + (a[k][1] * b[k][1]) * d,
                 d * (a[k][2] * b[k][2]))
Dot(a, b) == DotFrom(a, b, 1, 0, 1)

\* cos(2*pi*t) and sin(2*pi*t) for t a multiple of a quarter turn
Quarter(t) == IF (4 * t[1]) % t[2] = 0 THEN ((4 * t[1]) \div t[2]) % 4 ELSE 4
CosTable == [k \in 0..3 |-> CASE k = 0 -> 1 [] k = 1 -> 0 [] k = 2 -> -1 [] k = 3 -> 0]
SinTable == [k \in 0..3 |-> CASE k = 0 -> 0 [] k = 1 -> 1 [] k = 2 -> 0 [] k = 3 -> -1]
Cos(t) == CosTable[Quarter(t)]
Sin(t) == SinTable[Quarter(t)]

(***************************************************************************)
(* Tensor helpers.  A 2-D tensor of input points is a sequence of rows.    *)
(* A tensor whose first axis is the sample axis (a frequency block Z) is   *)
(* kept run-length encoded: a sequence of runs [row, count], the row       *)
(* repeated count times.                                                   *)
(***************************************************************************)
\* index into a dimension that broadcasting may have to stretch
Bx(len, i) == IF len = 1 THEN 1 ELSE i

RowSub(a, b) == [k \in 1..Len(a) |-> RSub(a[k], b[k])]
RowAdd(a, b) == [k \in 1..Len(a) |-> RAdd(a[k], b[k])]
RowNeg(a) == [k \in 1..Len(a) |-> RNeg(a[k])]
ZeroRow(d) == [k \in 1..d |-> Num(0)]

\* a tensor held in memory: its elements are computed once, when it is made
Stored(t) == t \o <<>>

\* x.div(lengthscale), lengthscale a scalar
Div(x, l) == Stored([i \in 1..Len(x) |-> Stored([k \in 1..Len(x[i]) |-> RDiv(x[i][k], l)])])

\* a - b for 2-D tensors [p,d] and [q,d] (p = q or one of them 1)
Sub2(a, b) ==
    Stored([i \in 1..Max(Len(a), Len(b)) |->
              Stored(RowSub(a[Bx(Len(a), i)], b[Bx(Len(b), i)]))])

\* a - b for 3-D tensors [p,q,d] and [r,s,d] under broadcasting
Sub3(a, b) ==
    Stored([i \in 1..Max(Len(a), Len(b)) |->
              Sub2(a[Bx(Len(a), i)], b[Bx(Len(b), i)])])

\* Z.size(0)
NumRows(Z) == IntSum([r \in 1..Len(Z) |-> Z[r].count])

\* Z[k] (k from 1)
RECURSIVE RowFrom(_, _, _)
RowFrom(Z, r, k) == IF k <= Z[r].count THEN Z[r].row ELSE RowFrom(Z, r + 1, k - Z[r].count)
RowAt(Z, k) == RowFrom(Z, 1, k)

\* Z[:, lo:hi] (columns lo..hi, from 1), and -Z
Cols(Z, lo, hi) == [r \in 1..Len(Z) |-> [row |-> SubSeq(Z[r].row, lo, hi), count |-> Z[r].count]]
Neg(Z) == [r \in 1..Len(Z) |-> [row |-> Stored(RowNeg(Z[r].row)), count |-> Z[r].count]]

\* tensor.mean over the sample axis, vals[r] the (integer) value on run r of Z
RunMean(Z, vals) ==
    Rat(IntSum([r \in 1..Len(Z) |-> Z[r].count * vals[r]]), NumRows(Z))

\* a parameter tensor with one run per row
AsBlock(t) == [r \in 1..Len(t) |-> [row |-> t[r], count |-> 1]]

(***************************************************************************)
(* Inputs of the value-level model.                                        *)
(***************************************************************************)
Half == <<1, 2>>
\* input points: the origin and one other point, (1/2, 1, 1, ...)
XRows(d) == {ZeroRow(d), [k \in 1..d |-> IF k = 1 THEN Half ELSE Num(1)]}
\* frequency row (a, a+1, ..., a+k-1)
ZRow(a, k) == [c \in 1..k |-> Num(a + c - 1)]
ZRows(k) == {ZRow(a, k) : a \in {1, 2}}
\* raw parameter rows as the constructor draws them, init_scale * rand(...)
RawRows(k) == {ZRow(a, k) : a \in {0, 1}}
Lengthscales == {Num(1), Num(2)}
Points(n, d) == [1..n -> XRows(d)]

\* A block of n reparameterized samples of the flow (any real rows): the
\* model draws blocks made of b distinct rows, b <= MaxBase, the n samples
\* spread over them as evenly as possible.
SampleBases(k) ==
    {[p \in 1..b |-> ZRow(a + p - 1, k)] : a \in {-1, 1}, b \in 1..MaxBase}
rsample(n, base) ==
    LET L == Len(base)
        cnt(p) == IF n >= p THEN ((n - p) \div L) + 1 ELSE 0
    IN  SelectSeq([p \in 1..L |-> [row |-> base[p], count |-> cnt(p)]],
                  LAMBDA r : r.count > 0)

(***************************************************************************)
(* SpectralAutoregressiveFlowKernel                                        *)
(***************************************************************************)
\* _create_input_grid with last_dim_is_batch=False
create_input_grid(x1, x2, diag) ==
    IF diag THEN <<x1, x2>>
    ELSE <<[i \in 1..Len(x1) |-> <<x1[i]>>], <<x2>>>>

SAF_NumSamplesTraining == 2000
SAF_NumSamplesEval == 2000

\* faulty variant: the grids are added instead of subtracted
SAF_diffs_Added(x1g, x2g, diag) ==
    IF diag
    THEN [i \in 1..Max(Len(x1g), Len(x2g)) |->
            RowAdd(x1g[Bx(Len(x1g), i)], x2g[Bx(Len(x2g), i)])]
    ELSE [i \in 1..Len(x1g) |-> [j \in 1..Len(x2g[1]) |->
            RowAdd(x1g[i][1], x2g[1][j])]]

SAF_diffs(x1g, x2g, diag) == IF diag THEN Sub2(x1g, x2g) ELSE Sub3(x1g, x2g)

\* faulty variant: sine basis instead of cosine basis
SAF_K_Sin(Z, diffs, diag) ==
    IF diag
    THEN [i \in 1..Len(diffs) |->
            RunMean(Z, [r \in 1..Len(Z) |-> Sin(Dot(Z[r].row, diffs[i]))])]
    ELSE [i \in 1..Len(diffs) |-> [j \in 1..Len(diffs[i]) |->
            RunMean(Z, [r \in 1..Len(Z) |-> Sin(Dot(Z[r].row, diffs[i][j]))])]]

\* the cosine-basis estimator of SpectralAutoregressiveFlowKernel.forward
SAF_K(Z, diffs, diag) ==
    IF diag
    THEN [i \in 1..Len(diffs) |->
            RunMean(Z, [r \in 1..Len(Z) |-> Cos(Dot(Z[r].row, diffs[i]))])]
    ELSE [i \in 1..Len(diffs) |-> [j \in 1..Len(diffs[i]) |->
            RunMean(Z, [r \in 1..Len(Z) |-> Cos(Dot(Z[r].row, diffs[i][j]))])]]

SAF_forward(k, x1, x2, diag, base) ==
    LET x1_ == Div(x1, k.lengthscale)
        x2_ == Div(x2, k.lengthscale)
        g == create_input_grid(x1_, x2_, diag)
        diffs == SAF_diffs(g[1], g[2], diag)
        Z == IF k.training THEN rsample(SAF_NumSamplesTraining, base)
             ELSE rsample(SAF_NumSamplesEval, base)
    IN  [op |-> "forward", cls |-> k.cls, x1 |-> x1, x2 |-> x2, diag |-> diag,
         nsamples |-> NumRows(Z), Z |-> Z, K |-> SAF_K(Z, diffs, diag),
         err |-> "none"]

NoCall == [op |-> "none", err |-> "none"]
NoWrite == [set |-> FALSE]

SAF_init(num_dims, l, training) ==
    [cls |-> "SpectralAutoregressiveFlowKernel", num_dims |-> num_dims,
     lengthscale |-> l, training |-> training]

(***************************************************************************)
(* Non-stationary augmentation and the dense non-stationary kernels        *)
(***************************************************************************)
\* faulty variant: the negated halves are left out of the concatenation
Augment_NoMirror(Z1, Z2) == Z1 \o Z2

\* torch.cat([Z1, Z2, -Z1, -Z2])
Augment(Z1, Z2) == Z1 \o Z2 \o Neg(Z1) \o Neg(Z2)

\* (x_ * Z_).sum(-1): per run of Z_, the projection of every grid point
\* (x_ is [n,1,d] or [1,m,d] in full mode, [n,d] in diag mode)
NS_proj(xg, Z_, diag) ==
    Stored([r \in 1..Len(Z_) |->
        IF diag THEN Stored([i \in 1..Len(xg) |-> Dot(xg[i], Z_[r].row)])
        ELSE Stored([i \in 1..Len(xg) |->
                Stored([j \in 1..Len(xg[i]) |-> Dot(xg[i][j], Z_[r].row)])])])

\* diff = x1z1 - x2z2, then diff.mul(2*pi).cos().mean(0): lines 135-136, 174-175
NS_K(Z1_, x1z1, x2z2, diag) ==
    IF diag
    THEN [i \in 1..Max(Len(x1z1[1]), Len(x2z2[1])) |->
            RunMean(Z1_, [r \in 1..Len(Z1_) |->
                Cos(RSub(x1z1[r][Bx(Len(x1z1[r]), i)], x2z2[r][Bx(Len(x2z2[r]), i)]))])]
    ELSE [i \in 1..Len(x1z1[1]) |-> [j \in 1..Len(x2z2[1][1]) |->
            RunMean(Z1_, [r \in 1..Len(Z1_) |->
                Cos(RSub(x1z1[r][i][1], x2z2[r][1][j]))])]]

\* faulty variant: the non-stationary kernel draws as many samples as the stationary one
NSSAF_NumSamples_AsStationary == SAF_NumSamplesEval

NSSAF_NumSamples == 128

NSSAF_forward(k, x1, x2, diag, base) ==
    LET x1_ == Div(x1, k.lengthscale)
        x2_ == Div(x2, k.lengthscale)
        g == create_input_grid(x1_, x2_, diag)
        Z == rsample(NSSAF_NumSamples, base)
        Z1 == Cols(Z, 1, k.num_dims)
        Z2 == Cols(Z, k.num_dims + 1, 2 * k.num_dims)
        Z1_ == Augment(Z1, Z2)
        Z2_ == Augment(Z1, Z2)
        x1z1 == NS_proj(g[1], Z1_, diag)
        x2z2 == NS_proj(g[2], Z2_, diag)
    IN  [op |-> "forward", cls |-> k.cls, x1 |-> x1, x2 |-> x2, diag |-> diag,
         nsamples |-> NumRows(Z), Z |-> Z, Z1_ |-> Z1_, Z2_ |-> Z2_,
         K |-> NS_K(Z1_, x1z1, x2z2, diag), err |-> "none"]

NSSAF_init(num_dims, l) ==
    [cls |-> "NSSpectralAutoregressiveFlowKernel", num_dims |-> num_dims,
     lengthscale |-> l, training |-> TRUE]

NSSAF_Forward ==
    /\ kernel.cls = "NSSpectralAutoregressiveFlowKernel"
    /\ res = NoCall
    /\ \E diag \in BOOLEAN, n \in 1..MaxPoints, m \in 1..MaxPoints :
         /\ diag => n = m
         /\ \E x1 \in Points(n, kernel.num_dims),
               x2 \in Points(m, kernel.num_dims),
               base \in SampleBases(2 * kernel.num_dims) :
              res' = NSSAF_forward(kernel, x1, x2, diag, base)
    /\ UNCHANGED <<kernel, written>>

NSSD_forward(k, x1, x2, diag) ==
    LET x1_ == Div(x1, k.lengthscale)
        x2_ == Div(x2, k.lengthscale)
        g == create_input_grid(x1_, x2_, diag)
        Z == AsBlock(k.Z)
        Z1 == Cols(Z, 1, k.num_dims)
        Z2 == Cols(Z, k.num_dims + 1, 2 * k.num_dims)
        Z1_ == Augment(Z1, Z2)
        Z2_ == Augment(Z1, Z2)
        x1z1 == NS_proj(g[1], Z1_, diag)
        x2z2 == NS_proj(g[2], Z2_, diag)
    IN  [op |-> "forward", cls |-> k.cls, x1 |-> x1, x2 |-> x2, diag |-> diag,
         nsamples |-> NumRows(Z), Z |-> Z, Z1_ |-> Z1_, Z2_ |-> Z2_,
         K |-> NS_K(Z1_, x1z1, x2z2, diag), err |-> "none"]

\* Z = Parameter(randn(num_deltas, 2 * num_dims))
NSSD_init(num_dims, l, Z) ==
    [cls |-> "NSSpectralDeltaKernel", num_dims |-> num_dims,
     lengthscale |-> l, training |-> TRUE, Z |-> Z]

NSSD_Forward ==
    /\ kernel.cls = "NSSpectralDeltaKernel"
    /\ res = NoCall
    /\ \E diag \in BOOLEAN, n \in 1..MaxPoints, m \in 1..MaxPoints :
         /\ diag => n = m
         /\ \E x1 \in Points(n, kernel.num_dims),
               x2 \in Points(m, kernel.num_dims) :
              res' = NSSD_forward(kernel, x1, x2, diag)
    /\ UNCHANGED <<kernel, written>>

SAF_Forward ==
    /\ kernel.cls = "SpectralAutoregressiveFlowKernel"
    /\ res = NoCall
    /\ \E diag \in BOOLEAN, n \in 1..MaxPoints, m \in 1..MaxPoints :
         /\ diag => n = m
         /\ \E x1 \in Points(n, kernel.num_dims),
               x2 \in Points(m, kernel.num_dims),
               base \in SampleBases(kernel.num_dims) :
              res' = SAF_forward(kernel, x1, x2, diag, base)
    /\ UNCHANGED <<kernel, written>>

(***************************************************************************)
(* Positive constraint of raw_Z (gpytorch.constraints, outside this file): *)
(* a strictly increasing bijection from the reals onto the positive reals  *)
(* with its inverse; -inf maps to 0 and back, as softplus does.            *)
(***************************************************************************)
transform(r) ==
    IF r = NaN \/ r = PosInf THEN r
    ELSE IF r = NegInf THEN Num(0)
    ELSE IF RLeq(Num(0), r) THEN RAdd(r, Num(1))
    ELSE RDiv(Num(1), RSub(Num(1), r))

inverse_transform(v) ==
    IF v = NaN \/ v = PosInf THEN v
    ELSE IF v = NegInf \/ RLess(v, Num(0)) THEN NaN
    ELSE IF v = Num(0) THEN NegInf
    ELSE IF RLeq(Num(1), v) THEN RSub(v, Num(1))
    ELSE RSub(Num(1), RDiv(Num(1), v))

Map2(t, F(_)) == [i \in 1..Len(t) |-> [k \in 1..Len(t[i]) |-> F(t[i][k])]]

(***************************************************************************)
(* Random-feature map and the lazy tensors (gpytorch.lazy, outside this    *)
(* file) that represent its products                                       *)
(***************************************************************************)
\* x.matmul(Z.transpose(-2,-1)) * 2*pi, then cat([cos, sin], -1) / sqrt(s),
\* s the number of frequency rows.  Row i is kept as runs [val, count];
\* size is the s under the square root.
Features(x, Z) ==
    [rows |-> Stored([i \in 1..Len(x) |->
                [r \in 1..Len(Z) |-> [val |-> Cos(Dot(x[i], Z[r].row)), count |-> Z[r].count]]
                \o
                [r \in 1..Len(Z) |-> [val |-> Sin(Dot(x[i], Z[r].row)), count |-> Z[r].count]]]),
     size |-> NumRows(Z),
     T |-> FALSE]

\* tensor.transpose(-2, -1)
Transpose(P) == [P EXCEPT !.T = ~@]

\* sqrt(a) * sqrt(b)
SqrtProd(a, b) == IF a = b THEN a ELSE CHOOSE r \in 1..(a * b) : r * r = a * b

\* inner product of feature row i of P with feature row j of Q
FDot(P, i, Q, j) ==
    Rat(IntSum([r \in 1..Len(P.rows[i]) |->
                P.rows[i][r].count * P.rows[i][r].val * Q.rows[j][r].val]),
        SqrtProd(P.size, Q.size))

RootLazyTensor(root) == [kind |-> "RootLazyTensor", root |-> root]
MatmulLazyTensor(left, right) == [kind |-> "MatmulLazyTensor", left |-> left, right |-> right]

\* the matrix a lazy tensor represents: root @ root^T, or left @ right
evaluate(L) ==
    IF L.kind = "RootLazyTensor"
    THEN [i \in 1..Len(L.root.rows) |-> [j \in 1..Len(L.root.rows) |->
            FDot(L.root, i, L.root, j)]]
    ELSE [i \in 1..Len(L.left.rows) |-> [j \in 1..Len(L.right.rows) |->
            FDot(L.left, i, L.right, j)]]

\* LazyTensor.diag(): (root ** 2).sum(-1), or (left * right^T).sum(-1)
lazy_diag(L) ==
    IF L.kind = "RootLazyTensor"
    THEN [i \in 1..Len(L.root.rows) |-> FDot(L.root, i, L.root, i)]
    ELSE [i \in 1..Len(L.left.rows) |-> FDot(L.left, i, L.right, i)]

\* faulty variant: only the sizes are compared
RF_equal_SizeOnly(x1, x2) == Len(x1) = Len(x2)

\* x1.size() == x2.size() and torch.equal(x1, x2)
RF_equal(x1, x2) == Len(x1) = Len(x2) /\ x1 = x2

RF_prod(x1, x2, x1z1, x2z2) ==
    IF RF_equal(x1, x2)
    THEN RootLazyTensor(x1z1)
    ELSE MatmulLazyTensor(x1z1, Transpose(x2z2))

RF_out(prod, diag) == IF diag THEN lazy_diag(prod) ELSE prod

(***************************************************************************)
(* RFNSSpectralDeltaKernel                                                 *)
(***************************************************************************)
\* the Z property: raw_Z_constraint.transform(raw_Z)
RFNSSD_Z(k) == Map2(k.raw_Z, transform)

RFNSSD_forward(k, x1, x2, diag) ==
    LET x1_ == Div(x1, k.lengthscale)
        x2_ == Div(x2, k.lengthscale)
        Z == AsBlock(RFNSSD_Z(k))
        Z1 == Cols(Z, 1, k.num_dims)
        Z2 == Cols(Z, k.num_dims + 1, 2 * k.num_dims)
        Z1_ == IF k.nonstationary THEN Augment(Z1, Z2) ELSE Z
        Z2_ == IF k.nonstationary THEN Augment(Z1, Z2) ELSE Z
        x1z1 == Features(x1_, Z1_)
        x2z2 == Features(x2_, Z2_)
        prod == RF_prod(x1, x2, x1z1, x2z2)
    IN  [op |-> "forward", cls |-> k.cls, x1 |-> x1, x2 |-> x2, diag |-> diag,
         nsamples |-> NumRows(Z), Z |-> Z, Z1_ |-> Z1_, Z2_ |-> Z2_,
         prod |-> prod, out |-> RF_out(prod, diag),
         err |-> "none"]

\* raw_Z = Parameter(init_scale * rand(num_deltas, 2 * num_dims or num_dims))
\* (ard_num_dims 0 stands for None; the parameter is float32 on the cpu)
RFNSSD_init(num_dims, nonstationary, l, raw_Z, ard_num_dims) ==
    [cls |-> "RFNSSpectralDeltaKernel", num_dims |-> num_dims,
     nonstationary |-> nonstationary, lengthscale |-> l, training |-> TRUE,
     raw_Z |-> raw_Z, ard_num_dims |-> ard_num_dims,
     dtype |-> "float32", device |-> "cpu"]

RFNSSD_Forward ==
    /\ kernel.cls = "RFNSSpectralDeltaKernel"
    /\ res = NoCall
    /\ \E diag \in BOOLEAN, n \in 1..MaxPoints, m \in 1..MaxPoints :
         /\ diag => n = m
         /\ \E x1 \in Points(n, kernel.num_dims),
               x2 \in Points(m, kernel.num_dims) :
              res' = RFNSSD_forward(kernel, x1, x2, diag)
    /\ UNCHANGED <<kernel, written>>

(***************************************************************************)
(* RFNSSpectralNFKernel                                                    *)
(***************************************************************************)
RFNF_DefaultSamples == 1024

\* values of the global setting num_spectral_samples
NumSpectralSamples == {16, RFNF_DefaultSamples}

\* the Z method
RFNF_Z(k, n_samples, base) == rsample(n_samples, base)

RFNF_forward(k, x1, x2, diag, setting, base) ==
    LET x1_ == Div(x1, k.lengthscale)
        x2_ == Div(x2, k.lengthscale)
        Z == RFNF_Z(k, setting, base)
        Z1 == Cols(Z, 1, k.num_dims)
        Z2 == Cols(Z, k.num_dims + 1, 2 * k.num_dims)
        Z1_ == IF k.nonstationary THEN Augment(Z1, Z2) ELSE Z
        Z2_ == IF k.nonstationary THEN Augment(Z1, Z2) ELSE Z
        x1z1 == Features(x1_, Z1_)
        x2z2 == Features(x2_, Z2_)
        prod == RF_prod(x1, x2, x1z1, x2z2)
    IN  [op |-> "forward", cls |-> k.cls, x1 |-> x1, x2 |-> x2, diag |-> diag,
         setting |-> setting,
         nsamples |-> NumRows(Z), Z |-> Z, Z1_ |-> Z1_, Z2_ |-> Z2_,
         prod |-> prod, out |-> RF_out(prod, diag),
         err |-> "none"]

RFNF_init(num_dims, nonstationary, l) ==
    [cls |-> "RFNSSpectralNFKernel", num_dims |-> num_dims,
     ndims |-> IF nonstationary THEN 2 * num_dims ELSE num_dims,
     nonstationary |-> nonstationary, lengthscale |-> l, training |-> TRUE]

RFNF_Forward ==
    /\ kernel.cls = "RFNSSpectralNFKernel"
    /\ res = NoCall
    /\ \E diag \in BOOLEAN, n \in 1..MaxPoints, m \in 1..MaxPoints :
         /\ diag => n = m
         /\ \E x1 \in Points(n, kernel.num_dims),
               x2 \in Points(m, kernel.num_dims),
               setting \in NumSpectralSamples,
               base \in SampleBases(kernel.ndims) :
              res' = RFNF_forward(kernel, x1, x2, diag, setting, base)
    /\ UNCHANGED <<kernel, written>>

\* a direct call kernel.Z(x1, x2), n_samples left at its default
RFNF_ZCall ==
    /\ kernel.cls = "RFNSSpectralNFKernel"
    /\ res = NoCall
    /\ \E base \in SampleBases(kernel.ndims) :
         LET Z == RFNF_Z(kernel, RFNF_DefaultSamples, base)
         IN  res' = [op |-> "Z", cls |-> kernel.cls, nsamples |-> NumRows(Z),
                     Z |-> Z, err |-> "none"]
    /\ UNCHANGED <<kernel, written>>

\* the call returns: its result is handed to the caller
Return ==
    /\ res # NoCall
    /\ res' = NoCall
    /\ UNCHANGED <<kernel, written>>

Init ==
    /\ \E d \in 1..MaxDims, l \in Lengthscales :
         \/ \E t \in BOOLEAN : kernel = SAF_init(d, l, t)
         \/ kernel = NSSAF_init(d, l)
         \/ \E nd \in 1..MaxDeltas : \E Z \in [1..nd -> ZRows(2 * d)] :
              kernel = NSSD_init(d, l, Z)
         \/ \E nd \in 1..MaxDeltas, ns \in BOOLEAN :
              \E raw_Z \in [1..nd -> RawRows(IF ns THEN 2 * d ELSE d)] :
                 kernel = RFNSSD_init(d, ns, l, raw_Z, 0)
         \/ \E ns \in BOOLEAN : kernel = RFNF_init(d, ns, l)
    /\ res = NoCall
    /\ written = NoWrite

Next ==
    \/ SAF_Forward
    \/ NSSAF_Forward
    \/ NSSD_Forward
    \/ RFNSSD_Forward
    \/ RFNF_Forward
    \/ RFNF_ZCall
    \/ Return

Spec == Init /\ [][Next]_vars

(***************************************************************************)
(* Shapes.  The dense forwards again, on tensor shapes alone: a shape is   *)
(* [ok, dims]; an operation the tensor runtime rejects gives ShapeErr.     *)
(***************************************************************************)
Sh(dims) == [ok |-> TRUE, dims |-> dims]
ShapeErr == [ok |-> FALSE, dims |-> <<>>]

\* the shape two tensors broadcast to
broadcast(a, b) ==
    IF ~a.ok \/ ~b.ok THEN ShapeErr
    ELSE LET la == Len(a.dims)
             lb == Len(b.dims)
             L == Max(la, lb)
             da(i) == IF i + la - L >= 1 THEN a.dims[i + la - L] ELSE 1
             db(i) == IF i + lb - L >= 1 THEN b.dims[i + lb - L] ELSE 1
         IN  IF \A i \in 1..L : da(i) = db(i) \/ da(i) = 1 \/ db(i) = 1
             THEN Sh([i \in 1..L |-> Max(da(i), db(i))])
             ELSE ShapeErr

\* tensor.unsqueeze(dim)
unsqueeze(a, dim) ==
    IF ~a.ok THEN ShapeErr
    ELSE LET L == Len(a.dims)
             pos == IF dim < 0 THEN dim + L + 1 ELSE dim
         IN  IF pos < 0 \/ pos > L THEN ShapeErr
             ELSE Sh(SubSeq(a.dims, 1, pos) \o <<1>> \o SubSeq(a.dims, pos + 1, L))

\* tensor.sum(dim) / tensor.mean(dim)
reduce(a, dim) ==
    IF ~a.ok THEN ShapeErr
    ELSE LET L == Len(a.dims)
             pos == IF dim < 0 THEN dim + L ELSE dim
         IN  IF pos < 0 \/ pos >= L THEN ShapeErr
             ELSE Sh(SubSeq(a.dims, 1, pos) \o SubSeq(a.dims, pos + 2, L))

\* the lengthscale, [1, 1] without ARD
LengthscaleShape == Sh(<<1, 1>>)

create_input_grid_shape(x1, x2, diag) ==
    IF diag THEN <<x1, x2>> ELSE <<unsqueeze(x1, -2), unsqueeze(x2, -3)>>

\* SpectralAutoregressiveFlowKernel.forward
SAF_shape(x1, x2, diag, num_dims, nsamples) ==
    LET x1_ == broadcast(x1, LengthscaleShape)
        x2_ == broadcast(x2, LengthscaleShape)
        g == create_input_grid_shape(x1_, x2_, diag)
        diffs == broadcast(g[1], g[2])
        Z == Sh(<<nsamples, num_dims>>)
    IN  IF diag
        THEN reduce(reduce(broadcast(unsqueeze(Z, -2), unsqueeze(diffs, -3)), -1), -2)
        ELSE reduce(reduce(broadcast(unsqueeze(unsqueeze(Z, -2), -2),
                                     unsqueeze(diffs, -4)), -1), -3)

\* NSSpectralAutoregressiveFlowKernel.forward and NSSpectralDeltaKernel.forward,
\* nrows the number of rows of Z
NS_shape(x1, x2, diag, num_dims, nrows) ==
    LET x1_ == broadcast(x1, LengthscaleShape)
        x2_ == broadcast(x2, LengthscaleShape)
        g == create_input_grid_shape(x1_, x2_, diag)
        cat == Sh(<<4 * nrows, num_dims>>)
        Z1_ == IF diag THEN unsqueeze(cat, 1) ELSE unsqueeze(unsqueeze(cat, 1), 1)
        Z2_ == IF diag THEN unsqueeze(cat, 1) ELSE unsqueeze(unsqueeze(cat, 1), 1)
        x1z1 == reduce(broadcast(g[1], Z1_), -1)
        x2z2 == reduce(broadcast(g[2], Z2_), -1)
        diff == broadcast(x1z1, x2z2)
    IN  reduce(diff, 0)

forward_shape(k, x1, x2, diag) ==
    LET K == IF k.cls = "SpectralAutoregressiveFlowKernel"
             THEN SAF_shape(x1, x2, diag, k.num_dims,
                            IF k.training THEN SAF_NumSamplesTraining
                            ELSE SAF_NumSamplesEval)
             ELSE IF k.cls = "NSSpectralAutoregressiveFlowKernel"
             THEN NS_shape(x1, x2, diag, k.num_dims, NSSAF_NumSamples)
             ELSE NS_shape(x1, x2, diag, k.num_dims, Len(k.Z))
    IN  [op |-> "forward_shape", cls |-> k.cls, x1 |-> x1.dims, x2 |-> x2.dims,
         diag |-> diag, K |-> K.dims,
         err |-> IF K.ok THEN "none" ELSE "RuntimeError (tensor shapes)"]

Batches == {<<>>} \cup {<<b>> : b \in 1..MaxBatch}

ForwardShape(cls) ==
    /\ kernel.cls = cls
    /\ res = NoCall
    /\ \E diag \in BOOLEAN, n \in 1..MaxPoints, m \in 1..MaxPoints, batch \in Batches :
         /\ diag => n = m
         /\ res' = forward_shape(kernel, Sh(batch \o <<n, kernel.num_dims>>),
                                 Sh(batch \o <<m, kernel.num_dims>>), diag)
    /\ UNCHANGED <<kernel, written>>

SAF_ForwardShape == ForwardShape("SpectralAutoregressiveFlowKernel")
NSSAF_ForwardShape == ForwardShape("NSSpectralAutoregressiveFlowKernel")
NSSD_ForwardShape == ForwardShape("NSSpectralDeltaKernel")

InitShape == Init /\ kernel.cls \in
    {"SpectralAutoregressiveFlowKernel", "NSSpectralAutoregressiveFlowKernel",
     "NSSpectralDeltaKernel"}

NextShape ==
    \/ SAF_ForwardShape
    \/ NSSAF_ForwardShape
    \/ NSSD_ForwardShape
    \/ Return

SpecShape == InitShape /\ [][NextShape]_vars

\* C4: every dense kernel, for inputs [...,n,d] and [...,m,d] with or
\* without a leading batch dimension, returns shape [...,n,m] in full mode
\* and [...,n] in diag mode.
C4_Shapes_Stated ==
    res.op = "forward_shape" =>
        LET batch == SubSeq(res.x1, 1, Len(res.x1) - 2)
            n == res.x1[Len(res.x1) - 1]
            m == res.x2[Len(res.x2) - 1]
        IN  /\ res.err = "none"
            /\ res.K = batch \o (IF res.diag THEN <<n>> ELSE <<n, m>>)

\* what does hold: the stationary kernel has the stated shapes for every
\* input, the non-stationary ones for inputs without a batch dimension
C4_ShapesUnbatched ==
    (res.op = "forward_shape"
        /\ (res.cls = "SpectralAutoregressiveFlowKernel" \/ Len(res.x1) = 2)) =>
        LET batch == SubSeq(res.x1, 1, Len(res.x1) - 2)
            n == res.x1[Len(res.x1) - 1]
            m == res.x2[Len(res.x2) - 1]
        IN  /\ res.err = "none"
            /\ res.K = batch \o (IF res.diag THEN <<n>> ELSE <<n, m>>)

(***************************************************************************)
(* RFNSSpectralDeltaKernel: the Z accessor and the two initializers.       *)
(* A value handed to the setter is [is_tensor, dtype, device, data], data  *)
(* a matrix of rationals.                                                  *)
(***************************************************************************)
Tensor(dtype, device, data) ==
    [is_tensor |-> TRUE, dtype |-> dtype, device |-> device, data |-> data]
\* a numpy array: float64, in host memory
Array(data) ==
    [is_tensor |-> FALSE, dtype |-> "float64", device |-> "cpu", data |-> data]

\* torch.as_tensor(value).to(self.raw_Z)
to_raw_Z(k, value) == Tensor(k.dtype, k.device, value.data)

\* val.expand_as(raw_Z)
expand_as(data, nrows, ncols) ==
    [i \in 1..nrows |-> [j \in 1..ncols |->
        data[Bx(Len(data), i)][Bx(Len(data[1]), j)]]]

\* Z getter
get_Z(k) == Tensor(k.dtype, k.device, Map2(k.raw_Z, transform))

\* faulty variant: the value is stored without the inverse transform
set_Z_raw_Untransformed(value) == value.data

\* the raw value the setter hands to initialize
set_Z_raw(value) == Map2(value.data, inverse_transform)

\* Z setter / _set_Z: the kernel after the write and the record of the write
set_Z(k, value) ==
    LET v == IF ~value.is_tensor THEN to_raw_Z(k, value) ELSE value
        raw == set_Z_raw(v)
    IN  [kernel |-> [k EXCEPT !.raw_Z = expand_as(raw, Len(k.raw_Z), Len(k.raw_Z[1]))],
         written |-> [set |-> TRUE, was_tensor |-> value.is_tensor,
                      dtype |-> v.dtype, device |-> v.device, data |-> v.data]]

\* values a caller writes: in and out of the range of the transform
ValueSeq == <<Half, Num(2), Num(0), Num(-1)>>
ValueData(nrows, ncols) ==
    {[r \in 1..nrows |-> [c \in 1..ncols |-> ValueSeq[((i + r) % Len(ValueSeq)) + 1]]] :
        i \in 1..Len(ValueSeq)}
Values(nrows, ncols) ==
    {Array(d) : d \in ValueData(nrows, ncols)}
    \cup {Tensor(t[1], t[2], d) : t \in {<<"float32", "cpu">>, <<"float64", "cuda">>},
                                  d \in ValueData(nrows, ncols)}

SetZ ==
    /\ kernel.cls = "RFNSSpectralDeltaKernel"
    /\ res = NoCall
    /\ \E value \in Values(Len(kernel.raw_Z), Len(kernel.raw_Z[1])) :
         \E w \in {set_Z(kernel, value)} :
             /\ kernel' = w.kernel
             /\ written' = w.written
             /\ res' = [op |-> "set_Z", value |-> value, before |-> kernel.raw_Z,
                        err |-> "none"]

GetZ ==
    /\ kernel.cls = "RFNSSpectralDeltaKernel"
    /\ res = NoCall
    /\ res' = [op |-> "Z", value |-> get_Z(kernel), err |-> "none"]
    /\ UNCHANGED <<kernel, written>>

(***************************************************************************)
(* initialize_from_data                                                    *)
(***************************************************************************)
\* numpy indexing arr[idx], idx counted from 0, a negative idx from the end
At(arr, idx) == arr[(IF idx < 0 THEN idx + Len(arr) ELSE idx) + 1]
InRange(arr, idx) == -Len(arr) <= idx /\ idx < Len(arr)

\* np.arange(M + 1) / N
freq_grid(N, M) == [i \in 1..(M + 1) |-> Rat(i - 1, N)]

\* cumtrapz(emp_spect, freq)
cumtrapz(y, x) ==
    [i \in 1..(Len(y) - 1) |->
        SumRange([j \in 1..(Len(y) - 1) |->
                    RMul(RDiv(RAdd(y[j], y[j + 1]), Num(2)), RSub(x[j + 1], x[j]))],
                 1, i)]

\* np.trapz(emp_spect, freq)
trapz(y, x) == IF Len(y) = 1 THEN Num(0) ELSE cumtrapz(y, x)[Len(y) - 1]

\* faulty variant: np.digitize(x, q, right=True)
digitize_Right(x, q) == Cardinality({i \in 1..Len(q) : RLess(q[i], x)})

\* np.digitize(x, q): the i with q[i-1] <= x < q[i]
digitize(x, q) == Cardinality({i \in 1..Len(q) : RLeq(q[i], x)})

\* the uniform draws and the power spectra the initializers are run on
Units == <<Num(0), <<1, 4>>, Half, <<3, 4>>>>
UnitAt(j) == Units[(j % Len(Units)) + 1]
SpectrumValues == {Num(0), Num(1)}

\* lines 200-219: the inverse-CDF samples, a function of N, the spectrum and
\* the uniform draws alone
inverse_cdf(N, emp_spect, a) ==
    LET M == N \div 2
        freq == freq_grid(N, M)
        total_area == trapz(emp_spect, freq)
        cum == cumtrapz(emp_spect, freq)
        spec_cdf == [i \in 1..(M + 1) |->
                        RDiv(IF i = 1 THEN Num(0) ELSE cum[i - 1], total_area)]
        bins == [r \in 1..Len(a) |-> digitize(a[r], spec_cdf)]
        slopes == [r \in 1..Len(a) |->
                     RDiv(RSub(At(spec_cdf, bins[r]), At(spec_cdf, bins[r] - 1)),
                          RSub(At(freq, bins[r]), At(freq, bins[r] - 1)))]
        intercepts == [r \in 1..Len(a) |->
                         RSub(At(spec_cdf, bins[r] - 1),
                              RMul(slopes[r], At(freq, bins[r] - 1)))]
        inv_spec == [r \in 1..Len(a) |-> RDiv(RSub(a[r], intercepts[r]), slopes[r])]
    IN  IF \A r \in 1..Len(a) : InRange(spec_cdf, bins[r])
        THEN [N |-> N, M |-> M, a |-> a, freq |-> freq, total_area |-> total_area,
              spec_cdf |-> spec_cdf, bins |-> bins, slopes |-> slopes,
              inv_spec |-> inv_spec, err |-> "none"]
        ELSE [N |-> N, a |-> a, err |-> "IndexError"]

\* the inputs initialize_from_data is run on: a power spectrum of M + 1
\* values and one uniform draw per delta
Spectra(N) == [1..((N \div 2) + 1) -> SpectrumValues]
Draws(num_deltas) == {[r \in 1..num_deltas |-> UnitAt(j + r)] : j \in 1..Len(Units)}
InverseCDFInputs ==
    UNION {{<<N, e, a>> : e \in Spectra(N),
                          a \in UNION {Draws(nd) : nd \in 1..MaxDeltas}} :
           N \in 1..MaxN}

\* inverse_cdf over those inputs, computed once
inverse_cdf_of == [t \in InverseCDFInputs |-> inverse_cdf(t[1], t[2], t[3])]

initialize_from_data(k, N, emp_spect, a) ==
    LET c == inverse_cdf_of[<<N, emp_spect, a>>]
        call == [op |-> "initialize_from_data", before |-> k.raw_Z]
        w == set_Z(k, Array([r \in 1..Len(a) |-> <<c.inv_spec[r]>>]))
    IN  IF c.err # "none"
        THEN [kernel |-> k, wrote |-> FALSE, res |-> call @@ c]
        ELSE [kernel |-> w.kernel, wrote |-> TRUE, written |-> w.written,
              res |-> call @@ c]

InitializeFromData ==
    /\ kernel.cls = "RFNSSpectralDeltaKernel"
    /\ res = NoCall
    /\ \E N \in 1..MaxN, a \in Draws(Len(kernel.raw_Z)) :
         \E emp_spect \in Spectra(N) :
            \E c \in {initialize_from_data(kernel, N, emp_spect, a)} :
                /\ kernel' = c.kernel
                /\ written' = IF c.wrote THEN c.written ELSE written
                /\ res' = c.res

(***************************************************************************)
(* initialize_from_data_simple                                             *)
(* train_x is [is_tensor, ndim, data], data its rows; of train_y only      *)
(* whether it is a tensor matters.                                         *)
(***************************************************************************)
LocalError == "RuntimeError: train_x and train_y should be tensors"

\* faulty variant: train_y is not looked at
not_tensors_OnlyX(train_x, train_y_is_tensor) == ~train_x.is_tensor

\* not torch.is_tensor(train_x) or not torch.is_tensor(train_y)
not_tensors(train_x, train_y_is_tensor) == ~train_x.is_tensor \/ ~train_y_is_tensor

Column(data, c) == [r \in 1..Len(data) |-> data[r][c]]

\* train_x.sort(1)[0], one column
SortColumn(col) ==
    [i \in 1..Len(col) |->
        CHOOSE v \in {col[j] : j \in 1..Len(col)} :
            /\ Cardinality({j \in 1..Len(col) : RLess(col[j], v)}) < i
            /\ i <= Cardinality({j \in 1..Len(col) : RLeq(col[j], v)})]

\* train_x_sort[:, 1:, :] - train_x_sort[:, :-1, :], one column
Gaps(sorted) == [r \in 1..(Len(sorted) - 1) |-> RSub(sorted[r + 1], sorted[r])]

\* torch.nonzero(min_dist_sort[:, ind]): the positions of the non-zero gaps
nonzero(gaps) == {r \in 1..Len(gaps) : gaps[r] # Num(0)}

\* min_dist_sort[torch.nonzero(min_dist_sort[:, ind])[0], ind]
first_nonzero(gaps) ==
    gaps[CHOOSE r \in nonzero(gaps) : \A q \in nonzero(gaps) : r <= q]

TrainValues == {Num(0), Num(2), Num(3)}
\* the training inputs: column 1 free, the further columns its mirror image
TrainRow(v, d) == [c \in 1..d |-> IF c % 2 = 1 THEN v ELSE RSub(Num(3), v)]
\* column 1 comes in decreasing order, so that the sort reverses it
TrainColumns(n) ==
    {col \in [1..n -> TrainValues] : \A i \in 1..(n - 1) : RLeq(col[i + 1], col[i])}
TrainData(d) ==
    {[r \in 1..Len(col) |-> TrainRow(col[r], d)] :
        col \in UNION {TrainColumns(n) : n \in 1..MaxTrain}}
\* a one-dimensional train_x is unsqueezed to one column
TrainX(d) ==
    {[is_tensor |-> FALSE]}
    \cup {[is_tensor |-> TRUE, ndim |-> nd, data |-> data] :
             nd \in (IF d = 1 THEN {1, 2} ELSE {2}), data \in TrainData(d)}

\* lines 231-232: the gaps of every sorted column, a function of train_x alone
min_dist_sort(data) ==
    [ind \in 1..Len(data[1]) |-> Gaps(SortColumn(Column(data, ind)))]

\* min_dist_sort over the training inputs, computed once
min_dist_sort_of ==
    [data \in UNION {TrainData(d) : d \in 1..MaxDims} |-> min_dist_sort(data)]

initialize_from_data_simple(k, train_x, train_y_is_tensor, rand) ==
    LET gaps == min_dist_sort_of[train_x.data]
        ard_num_dims == IF k.ard_num_dims = 0 THEN 1 ELSE k.ard_num_dims
        found == ard_num_dims <= Len(gaps)
                 /\ \A ind \in 1..ard_num_dims : nonzero(gaps[ind]) # {}
        min_dist == [ind \in 1..ard_num_dims |-> first_nonzero(gaps[ind])]
        ncols == Len(k.raw_Z[1])
        fits == ard_num_dims = 1 \/ ard_num_dims = ncols
        z_init == [r \in 1..Len(rand) |-> [c \in 1..ncols |->
                     RDiv(RMul(rand[r][c], Half), min_dist[Bx(ard_num_dims, c)])]]
        w == set_Z(k, Tensor(k.dtype, k.device, z_init))
        call == [op |-> "initialize_from_data_simple", train_x |-> train_x,
                 train_y_is_tensor |-> train_y_is_tensor, before |-> k.raw_Z]
    IN  IF not_tensors(train_x, train_y_is_tensor)
        THEN [kernel |-> k, wrote |-> FALSE,
              res |-> call @@ [err |-> LocalError]]
        ELSE IF ~found
        THEN [kernel |-> k, wrote |-> FALSE,
              res |-> call @@ [err |-> "IndexError"]]
        ELSE IF ~fits
        THEN [kernel |-> k, wrote |-> FALSE,
              res |-> call @@ [min_dist |-> min_dist,
                               err |-> "RuntimeError (tensor shapes)"]]
        ELSE [kernel |-> w.kernel, wrote |-> TRUE, written |-> w.written,
              res |-> call @@ [rand |-> rand, gaps |-> gaps, min_dist |-> min_dist,
                               z_init |-> z_init, err |-> "none"]]

\* torch.rand_like(self.Z); a call that fails before line 238 draws nothing
RandLike(j, nrows, ncols) ==
    [r \in 1..nrows |-> [c \in 1..ncols |-> UnitAt(j + 2 * (r + c))]]

InitializeFromDataSimple ==
    /\ kernel.cls = "RFNSSpectralDeltaKernel"
    /\ res = NoCall
    /\ \E train_x \in TrainX(kernel.num_dims), train_y_is_tensor \in BOOLEAN,
          j \in {0, 1} :
         /\ not_tensors(train_x, train_y_is_tensor) => j = 0
         /\ \E c \in {initialize_from_data_simple(kernel, train_x, train_y_is_tensor,
                           RandLike(j, Len(kernel.raw_Z), Len(kernel.raw_Z[1])))} :
              /\ kernel' = c.kernel
              /\ written' = IF c.wrote THEN c.written ELSE written
              /\ res' = c.res

InitInit ==
    /\ \E d \in 1..MaxDims, nd \in 1..MaxDeltas, ns \in BOOLEAN, ard \in BOOLEAN :
         \E raw_Z \in [1..nd -> RawRows(IF ns THEN 2 * d ELSE d)] :
            /\ ard => d > 1     \* ard_num_dims = 1 acts as None
            /\ kernel = RFNSSD_init(d, ns, Num(1), raw_Z, IF ard THEN d ELSE 0)
    /\ res = NoCall
    /\ written = NoWrite

NextInit ==
    \/ SetZ
    \/ GetZ
    \/ InitializeFromData
    \/ InitializeFromDataSimple
    \/ Return

SpecInit == InitInit /\ [][NextInit]_vars

(***************************************************************************)
(* Properties of the accessor and the initializers (specification SpecInit)*)
(***************************************************************************)
InRangeOfTransform(data) ==
    \A i \in 1..Len(data) : \A j \in 1..Len(data[i]) :
        IsFinite(data[i][j]) /\ RLess(Num(0), data[i][j])

RawShape == <<Len(kernel.raw_Z), Len(kernel.raw_Z[1])>>

\* C2: a read of Z is the forward transform of raw_Z; a write stores the
\* inverse transform of the value (expanded to raw_Z's shape), so that Z
\* reads back the last written value whenever that value is in the range
\* of the transform; a non-tensor value is written as a tensor of raw_Z's
\* dtype and device.
C2_Accessor ==
    /\ res.op = "Z" => res.value.data = Map2(kernel.raw_Z, transform)
    /\ written.set =>
          /\ kernel.raw_Z = expand_as(Map2(written.data, inverse_transform),
                                      RawShape[1], RawShape[2])
          /\ InRangeOfTransform(written.data) =>
                get_Z(kernel).data = expand_as(written.data, RawShape[1], RawShape[2])
          /\ ~written.was_tensor =>
                written.dtype = kernel.dtype /\ written.device = kernel.device

\* a value in (0, 1) written as a numpy array and read back
C2_Witness ==
    /\ res.op = "Z"
    /\ written.set /\ ~written.was_tensor
    /\ InRangeOfTransform(written.data)
    /\ written.data[1][1] = Half
    /\ res.value.data = written.data

\* C7: initialize_from_data_simple raises its own error whenever train_x or
\* train_y is not a tensor, leaving raw_Z and the record of writes as they
\* were; nothing else raises that error.
C7_Validation ==
    /\ (res.op = "initialize_from_data_simple"
          /\ (~res.train_x.is_tensor \/ ~res.train_y_is_tensor)) =>
            /\ res.err = LocalError
            /\ kernel.raw_Z = res.before
    /\ res.err = LocalError =>
            /\ res.op = "initialize_from_data_simple"
            /\ ~res.train_x.is_tensor \/ ~res.train_y_is_tensor

C7_Unchanged ==
    [][(res = NoCall /\ res'.err = LocalError) => UNCHANGED <<kernel, written>>]_vars

\* train_x a tensor with a positive gap, train_y not a tensor
C7_Witness ==
    /\ res.op = "initialize_from_data_simple"
    /\ res.train_x.is_tensor /\ ~res.train_y_is_tensor
    /\ Len(res.train_x.data) >= 2
    /\ res.train_x.data[1] # res.train_x.data[2]
    /\ res.err = LocalError

MinPositiveGap(gaps) ==
    CHOOSE g \in {gaps[r] : r \in nonzero(gaps)} :
        \A r \in nonzero(gaps) : RLeq(g, gaps[r])

\* C8: for every train_x with a positive gap in each feature dimension,
\* min_gap of a dimension is the minimum of the positive gaps between the
\* consecutive sorted values of the dimension, and Z is set to
\* Uniform(0,1) * 0.5 / min_gap.
C8_MinGap_Stated ==
    (res.op = "initialize_from_data_simple"
       /\ res.train_x.is_tensor /\ res.train_y_is_tensor
       /\ \A ind \in 1..Len(res.train_x.data[1]) :
             nonzero(Gaps(SortColumn(Column(res.train_x.data, ind)))) # {}) =>
        /\ res.err = "none"
        /\ \A r \in 1..RawShape[1] : \A c \in 1..RawShape[2] :
              written.data[r][c] =
                 RDiv(RMul(res.rand[r][c], Half),
                      MinPositiveGap(Gaps(SortColumn(Column(res.train_x.data,
                          ((c - 1) % Len(res.train_x.data[1])) + 1)))))

\* C10: with a normalised empirical CDF, every bracket index is in 1..M,
\* brackets its uniform sample strictly, has a non-zero slope, and inverts
\* to a frequency in [freq[bin-1], freq[bin]) within [0, 1/2]; num_deltas
\* frequencies are produced and written through the Z setter.
C10_InverseCDF ==
    (res.op = "initialize_from_data" /\ res.err = "none"
       /\ res.total_area # Num(0)) =>
        /\ res.spec_cdf[1] = Num(0) /\ res.spec_cdf[res.M + 1] = Num(1)
        /\ Len(res.inv_spec) = RawShape[1]
        /\ \A r \in 1..Len(res.a) :
              LET bin == res.bins[r]
              IN  /\ bin \in 1..res.M
                  /\ RLeq(res.spec_cdf[bin], res.a[r])
                  /\ RLess(res.a[r], res.spec_cdf[bin + 1])
                  /\ IsFinite(res.slopes[r]) /\ res.slopes[r] # Num(0)
                  /\ RLeq(res.freq[bin], res.inv_spec[r])
                  /\ RLess(res.inv_spec[r], res.freq[bin + 1])
                  /\ RLeq(Num(0), res.inv_spec[r]) /\ RLeq(res.inv_spec[r], Half)
        /\ written.set /\ ~written.was_tensor
        /\ written.data = [r \in 1..Len(res.a) |-> <<res.inv_spec[r]>>]

C10_NoIndexError == res.op = "initialize_from_data" => res.err = "none"

\* a CDF with a flat stretch, a sample on the lower edge of its bracket
\* and a sample strictly inside the last bracket
C10_Witness ==
    /\ res.op = "initialize_from_data" /\ res.err = "none"
    /\ res.total_area # Num(0)
    /\ res.M = 2
    /\ res.spec_cdf[1] = res.spec_cdf[2]
    /\ res.a[1] = Num(0) /\ res.bins[1] = 2
    /\ res.inv_spec[1] = res.freq[2]

(***************************************************************************)
(* Properties of the forward evaluations (specification Spec)              *)
(***************************************************************************)
IsForward == res.op = "forward"
DenseClasses ==
    {"SpectralAutoregressiveFlowKernel", "NSSpectralAutoregressiveFlowKernel",
     "NSSpectralDeltaKernel"}
RFClasses == {"RFNSSpectralDeltaKernel", "RFNSSpectralNFKernel"}

\* C1 as stated: one forward call draws 2000 samples in the dense stationary
\* kernel (training and evaluation mode alike) and 2000 in the dense
\* non-stationary flow kernel; the random-feature flow kernel draws the number
\* the global setting gives, and its sampler defaults to 1024.
C1_SampleCounts_Stated ==
    /\ (IsForward /\ res.cls = "SpectralAutoregressiveFlowKernel") => res.nsamples = 2000
    /\ (IsForward /\ res.cls = "NSSpectralAutoregressiveFlowKernel") => res.nsamples = 2000
    /\ (IsForward /\ res.cls = "RFNSSpectralNFKernel") => res.nsamples = res.setting
    /\ res.op = "Z" => res.nsamples = 1024

\* C1 amended: as stated, except that the dense non-stationary flow kernel
\* draws 128 samples per forward call (512 frequency rows after mirroring).
C1_SampleCounts ==
    /\ (IsForward /\ res.cls = "SpectralAutoregressiveFlowKernel") => res.nsamples = 2000
    /\ (IsForward /\ res.cls = "NSSpectralAutoregressiveFlowKernel") =>
          res.nsamples = 128 /\ NumRows(res.Z1_) = 512
    /\ (IsForward /\ res.cls = "RFNSSpectralNFKernel") => res.nsamples = res.setting
    /\ res.op = "Z" => res.nsamples = 1024

C1_Witness ==
    /\ IsForward
    /\ res.cls = "NSSpectralAutoregressiveFlowKernel"
    /\ res.nsamples = 128

\* C3: a random-feature forward returns the root representation built from
\* the x1 features alone exactly when x1 and x2 have the same size and are
\* equal, and the product representation otherwise; either way entry (i,j)
\* of the represented matrix is the inner product of the feature vector of
\* x1[i] with that of x2[j], and with diag=True the result is the (i,i)
\* entries of that matrix.
C3_Representation ==
    (IsForward /\ res.cls \in RFClasses) =>
        LET P1 == Features(Div(res.x1, kernel.lengthscale), res.Z1_)
            P2 == Features(Div(res.x2, kernel.lengthscale), res.Z2_)
            same == Len(res.x1) = Len(res.x2) /\ res.x1 = res.x2
            full == [i \in 1..Len(res.x1) |-> [j \in 1..Len(res.x2) |->
                        FDot(P1, i, P2, j)]]
        IN  /\ same => res.prod = [kind |-> "RootLazyTensor", root |-> P1]
            /\ ~same => /\ res.prod.kind = "MatmulLazyTensor"
                         /\ res.prod.left = P1
                         /\ res.prod.right = Transpose(P2)
            /\ evaluate(res.prod) = full
            /\ res.diag => res.out = [i \in 1..Len(res.x1) |-> full[i][i]]
            /\ ~res.diag => res.out = res.prod

C3_Witness ==
    /\ IsForward
    /\ res.cls \in RFClasses
    /\ res.prod.kind = "MatmulLazyTensor"
    /\ Len(res.x1) = Len(res.x2)
    /\ res.diag
    /\ \E i \in 1..Len(res.out) : res.out[i] # Num(1)

\* C5: the stationary flow-sampled kernel called with x1 equal to x2 returns
\* 1 at every diagonal entry (i,i) in full mode and at every entry in diag
\* mode, whatever the samples and the lengthscale.
C5_UnitDiagonal ==
    (IsForward /\ res.cls = "SpectralAutoregressiveFlowKernel" /\ res.x1 = res.x2) =>
        \A i \in 1..Len(res.x1) :
            IF res.diag THEN res.K[i] = Num(1) ELSE res.K[i][i] = Num(1)

C5_Witness ==
    /\ IsForward
    /\ res.cls = "SpectralAutoregressiveFlowKernel"
    /\ res.x1 = res.x2
    /\ ~res.diag
    /\ Len(res.x1) = 2
    /\ res.K[1][2] # Num(1)
    /\ kernel.lengthscale # Num(1)

\* C6: a dense kernel called in full mode with x1 equal to x2 returns an
\* exactly symmetric matrix.
C6_Symmetric ==
    (IsForward /\ res.cls \in DenseClasses /\ ~res.diag /\ res.x1 = res.x2) =>
        \A i, j \in 1..Len(res.x1) : res.K[i][j] = res.K[j][i]

C6_Witness ==
    /\ IsForward
    /\ res.cls = "NSSpectralDeltaKernel"
    /\ ~res.diag
    /\ res.x1 = res.x2
    /\ Len(res.x1) = 2
    /\ res.K[1][2] # res.K[1][1]

\* first n rows, rows after the first n, and the run-length normal form
RECURSIVE Take(_, _)
Take(Z, n) ==
    IF n <= 0 \/ Z = <<>> THEN <<>>
    ELSE IF Z[1].count <= n THEN <<Z[1]>> \o Take(Tail(Z), n - Z[1].count)
    ELSE <<[row |-> Z[1].row, count |-> n]>>
RECURSIVE Drop(_, _)
Drop(Z, n) ==
    IF n <= 0 \/ Z = <<>> THEN Z
    ELSE IF Z[1].count <= n THEN Drop(Tail(Z), n - Z[1].count)
    ELSE <<[row |-> Z[1].row, count |-> Z[1].count - n]>> \o Tail(Z)
RECURSIVE Canon(_)
Canon(Z) ==
    IF Len(Z) < 2 THEN Z
    ELSE IF Z[1].row = Z[2].row
         THEN Canon(<<[row |-> Z[1].row, count |-> Z[1].count + Z[2].count]>>
                    \o Tail(Tail(Z)))
         ELSE <<Z[1]>> \o Canon(Tail(Z))
Width(Z, w) == \A r \in 1..Len(Z) : Len(Z[r].row) = w

Mirrored(k) == k.cls \in RFClasses => k.nonstationary

\* C9: in a non-stationary forward the block Z (s rows, 2*num_dims columns)
\* is augmented to 4*s rows of num_dims columns, row k+2s being the negation
\* of row k for every k in 1..2s (rows 2s+1..4s are rows 1..2s negated), and
\* the same block serves the x1 side and the x2 side; a random-feature
\* kernel built with nonstationary=False uses Z itself, unmirrored, for both.
C9_Augmentation ==
    (IsForward /\ res.cls # "SpectralAutoregressiveFlowKernel") =>
        LET s == NumRows(res.Z)
        IN  IF Mirrored(kernel)
            THEN /\ Width(res.Z, 2 * kernel.num_dims)
                 /\ NumRows(res.Z1_) = 4 * s
                 /\ Width(res.Z1_, kernel.num_dims)
                 /\ Canon(Drop(res.Z1_, 2 * s)) = Canon(Neg(Take(res.Z1_, 2 * s)))
                 /\ RowAdd(RowAt(res.Z1_, 1), RowAt(res.Z1_, 1 + 2 * s))
                        = ZeroRow(kernel.num_dims)
                 /\ RowAdd(RowAt(res.Z1_, 2 * s), RowAt(res.Z1_, 4 * s))
                        = ZeroRow(kernel.num_dims)
                 /\ res.Z2_ = res.Z1_
            ELSE /\ res.Z1_ = res.Z
                 /\ res.Z2_ = res.Z
                 /\ NumRows(res.Z1_) = s
                 /\ Width(res.Z, kernel.num_dims)

C9_Witness ==
    /\ IsForward
    /\ res.cls = "RFNSSpectralDeltaKernel"
    /\ kernel.nonstationary
    /\ NumRows(res.Z1_) = 4 * NumRows(res.Z)
    /\ RowAt(res.Z1_, 1) # RowAt(res.Z1_, 1 + NumRows(res.Z))

====
